---- MODULE Spec2Model ----
(***************************************************************************)
(* Tariff Tracker dashboard (src/main.py): the script is re-executed from  *)
(* top to bottom on every user interaction.  One execution loads a table   *)
(* (uploaded CSV or seeded synthetic data), coerces three columns to       *)
(* numbers (clean_numeric), builds the Region / Category selectors,        *)
(* applies the selected filters and computes the mean AvgPrice per         *)
(* Category.                                                               *)
(*                                                                         *)
(* Text is a sequence of one-character strings.  A cell is a record        *)
(*   [k, s, m, e]  with k the kind:                                        *)
(*     "str"   text s                                                      *)
(*     "int"   the integer m                                               *)
(*     "float" the finite float m * 10^e (m has no trailing zero)          *)
(*     "inf" / "-inf"  the infinite floats                                 *)
(*     "nan"   NaN, which is also pandas' missing value (null)             *)
(***************************************************************************)
EXTENDS Integers, Sequences, FiniteSets, TLC

(* ------------------------------------------------------------------ *)
(* Bounds of the model                                                 *)
(* ------------------------------------------------------------------ *)
\* rows of an uploaded table
MaxRows == 2

(* ------------------------------------------------------------------ *)
(* Characters and text                                                 *)
(* ------------------------------------------------------------------ *)
\* printable ASCII in code-point order, starting at code point 32 (the grave
\* accent, code point 96, is written GRAVE)
Ascii ==
  << " ", "!", "\"", "#", "$", "%", "&", "'", "(", ")", "*", "+", ",", "-", ".", "/",
     "0", "1", "2", "3", "4", "5", "6", "7", "8", "9", ":", ";", "<", "=", ">", "?",
     "@", "A", "B", "C", "D", "E", "F", "G", "H", "I", "J", "K", "L", "M", "N", "O",
     "P", "Q", "R", "S", "T", "U", "V", "W", "X", "Y", "Z", "[", "\\", "]", "^", "_",
     "GRAVE", "a", "b", "c", "d", "e", "f", "g", "h", "i", "j", "k", "l", "m", "n", "o",
     "p", "q", "r", "s", "t", "u", "v", "w", "x", "y", "z", "{", "|", "}", "~" >>

\* ord(c), as a table
CodePoints ==
  [c \in {Ascii[i] : i \in 1..Len(Ascii)} |-> 31 + CHOOSE i \in 1..Len(Ascii) : Ascii[i] = c]

\* ord(c)
Code(c) == CodePoints[c]

Digits == {"0", "1", "2", "3", "4", "5", "6", "7", "8", "9"}

DigitVal(c) == Code(c) - 48

\* str.lower() of one character
Lower(c) == IF Code(c) >= 65 /\ Code(c) <= 90 THEN Ascii[Code(c) + 32 - 31] ELSE c

LowerText(t) == [i \in 1..Len(t) |-> Lower(t[i])]

\* Python's order on str: lexicographic by code point
RECURSIVE TextLess(_, _)
TextLess(a, b) ==
  IF b = <<>> THEN FALSE
  ELSE IF a = <<>> THEN TRUE
  ELSE IF Head(a) = Head(b) THEN TextLess(Tail(a), Tail(b))
  ELSE Code(Head(a)) < Code(Head(b))

(* ------------------------------------------------------------------ *)
(* Cells                                                               *)
(* ------------------------------------------------------------------ *)
Str(t) == [k |-> "str", s |-> t, m |-> 0, e |-> 0]
IntCell(n) == [k |-> "int", s |-> <<>>, m |-> n, e |-> 0]
NaN == [k |-> "nan", s |-> <<>>, m |-> 0, e |-> 0]
PosInf == [k |-> "inf", s |-> <<>>, m |-> 0, e |-> 0]
NegInf == [k |-> "-inf", s |-> <<>>, m |-> 0, e |-> 0]

\* the float m * 10^e, with the trailing zeros of m moved into e
RECURSIVE Flt(_, _)
Flt(m, e) ==
  IF m = 0 THEN [k |-> "float", s |-> <<>>, m |-> 0, e |-> 0]
  ELSE IF m % 10 = 0 THEN Flt(m \div 10, e + 1)
  ELSE [k |-> "float", s |-> <<>>, m |-> m, e |-> e]

\* float(x) of an int cell; the other kinds are floats already
AsFloat(c) == IF c.k = "int" THEN Flt(c.m, 0) ELSE c

IsNull(c) == c.k = "nan"
IsFinite(c) == c.k \in {"int", "float"}

Abs(n) == IF n < 0 THEN -n ELSE n

RECURSIVE Pow10(_)
Pow10(n) == IF n <= 0 THEN 1 ELSE 10 * Pow10(n - 1)

\* the decimal digits of a natural number, most significant first
RECURSIVE DigitsOf(_)
DigitsOf(n) ==
  IF n < 10 THEN << Ascii[n + 48 - 31] >>
  ELSE Append(DigitsOf(n \div 10), Ascii[(n % 10) + 48 - 31])

RECURSIVE Zeros(_)
Zeros(n) == IF n <= 0 THEN <<>> ELSE <<"0">> \o Zeros(n - 1)

(* ------------------------------------------------------------------ *)
(* str(x): astype(str) applies it to every cell (line 32)              *)
(* ------------------------------------------------------------------ *)
\* repr of a finite float m * 10^e, m # 0 normalised
FloatRepr(m, e) ==
  LET ds == DigitsOf(Abs(m))
      n == Len(ds)
      x == n + e - 1                    \* decimal exponent of the leading digit
      sign == IF m < 0 THEN <<"-">> ELSE <<>>
      expds == DigitsOf(Abs(x))
  IN  IF m = 0 THEN <<"0", ".", "0">>
      ELSE IF x >= -4 /\ x < 16 THEN
        IF e >= 0 THEN sign \o ds \o Zeros(e) \o <<".", "0">>
        ELSE IF x >= 0 THEN sign \o SubSeq(ds, 1, x + 1) \o <<".">> \o SubSeq(ds, x + 2, n)
        ELSE sign \o <<"0", ".">> \o Zeros(-x - 1) \o ds
      ELSE sign \o <<ds[1]>>
           \o (IF n > 1 THEN <<".">> \o SubSeq(ds, 2, n) ELSE <<>>)
           \o <<"e">> \o (IF x < 0 THEN <<"-">> ELSE <<"+">>)
           \o (IF Len(expds) < 2 THEN <<"0">> ELSE <<>>) \o expds

ToStr(c) ==
  CASE c.k = "str" -> c.s
    [] c.k = "int" -> (IF c.m < 0 THEN <<"-">> ELSE <<>>) \o DigitsOf(Abs(c.m))
    [] c.k = "float" -> FloatRepr(c.m, c.e)
    [] c.k = "inf" -> <<"i", "n", "f">>
    [] c.k = "-inf" -> <<"-", "i", "n", "f">>
    [] c.k = "nan" -> <<"n", "a", "n">>

(* ------------------------------------------------------------------ *)
(* .str.replace(old, "") on one cell (lines 33-34)                     *)
(* ------------------------------------------------------------------ *)
StrReplace(t, old) == SelectSeq(t, LAMBDA c : c # old)

(* ------------------------------------------------------------------ *)
(* pd.to_numeric(..., errors="coerce") on one text (line 36)           *)
(* ------------------------------------------------------------------ *)
\* first position of a character of set S in t, 0 when there is none
IndexOf(t, S) ==
  IF \E i \in 1..Len(t) : t[i] \in S
  THEN CHOOSE i \in 1..Len(t) : t[i] \in S /\ \A j \in 1..(i - 1) : t[j] \notin S
  ELSE 0

AllDigits(t) == \A i \in 1..Len(t) : t[i] \in Digits

RECURSIVE NatOf(_)
NatOf(t) == IF t = <<>> THEN 0 ELSE 10 * NatOf(SubSeq(t, 1, Len(t) - 1)) + DigitVal(t[Len(t)])

HasSign(t) == Len(t) > 0 /\ t[1] \in {"+", "-"}
Unsigned(t) == IF HasSign(t) THEN Tail(t) ELSE t
IsNegative(t) == Len(t) > 0 /\ t[1] = "-"

\* an unsigned decimal literal: digits [. digits] [e [sign] digits]
ParseDecimal(t) ==
  LET ei == IndexOf(t, {"e", "E"})
      mant == IF ei = 0 THEN t ELSE SubSeq(t, 1, ei - 1)
      expt == IF ei = 0 THEN <<>> ELSE SubSeq(t, ei + 1, Len(t))
      pi == IndexOf(mant, {"."})
      ip == IF pi = 0 THEN mant ELSE SubSeq(mant, 1, pi - 1)
      fp == IF pi = 0 THEN <<>> ELSE SubSeq(mant, pi + 1, Len(mant))
      ed == Unsigned(expt)
      ev == IF IsNegative(expt) THEN -NatOf(ed) ELSE NatOf(ed)
  IN  [ok |-> /\ AllDigits(ip) /\ AllDigits(fp) /\ Len(ip) + Len(fp) > 0
              /\ (ei = 0 \/ (Len(ed) > 0 /\ AllDigits(ed))),
       isint |-> ei = 0 /\ pi = 0,
       m |-> NatOf(ip \o fp),
       e |-> ev - Len(fp)]

\* the number a text parses to; NaN when it does not parse (errors="coerce")
ToNumeric(t) ==
  LET u == Unsigned(t)
      neg == IsNegative(t)
      w == LowerText(u)
      d == ParseDecimal(u)
  IN  IF t = <<>> THEN NaN
      ELSE IF w = <<"n", "a", "n">> THEN NaN
      ELSE IF w = <<"i", "n", "f">> \/ w = <<"i", "n", "f", "i", "n", "i", "t", "y">>
        THEN (IF neg THEN NegInf ELSE PosInf)
      ELSE IF ~d.ok THEN NaN
      ELSE IF d.isint THEN IntCell(IF neg THEN -d.m ELSE d.m)
      ELSE Flt(IF neg THEN -d.m ELSE d.m, d.e)

(* ------------------------------------------------------------------ *)
(* Tables: [cols: set of column names, rows: sequence of rows], a row  *)
(* a function from cols to cells                                       *)
(* ------------------------------------------------------------------ *)
Len0(df) == Len(df.rows)

Column(df, col) == [i \in 1..Len0(df) |-> df.rows[i][col]]

\* df[col] = values
SetColumn(df, col, values) ==
  [df EXCEPT !.rows = [i \in 1..Len0(df) |-> [df.rows[i] EXCEPT ![col] = values[i]]]]

(* ------------------------------------------------------------------ *)
(* clean_numeric (lines 27-39)                                         *)
(* ------------------------------------------------------------------ *)
\* line 76
numeric_cols == <<"Production", "AvgPrice", "Sellout">>

\* lines 31-35 without the second replace: spaces are left in the text
StripCell_CommasOnly(c) == StrReplace(ToStr(c), ",")

\* lines 31-35 with "." typed for ",": the decimal point is deleted
StripCell_DropsPoint(c) == StrReplace(StrReplace(ToStr(c), "."), " ")

\* lines 31-35: .astype(str).str.replace(",", "").str.replace(" ", "")
StripCell(c) == StrReplace(StrReplace(ToStr(c), ","), " ")

\* line 36 on a whole column: int64 when every text is an integer literal,
\* float64 otherwise
ToNumericColumn(texts) ==
  LET parsed == [i \in 1..Len(texts) |-> ToNumeric(texts[i])]
  IN  IF \A i \in 1..Len(texts) : parsed[i].k = "int"
      THEN parsed
      ELSE [i \in 1..Len(texts) |-> AsFloat(parsed[i])]

\* lines 30-36: the body of the loop for one column
CleanColumn(df, col) ==
  LET values == Column(df, col)
      texts == [i \in 1..Len(values) |-> StripCell(values[i])]
  IN  SetColumn(df, col, ToNumericColumn(texts))

\* lines 28-36: the loop over the requested columns, skipping absent ones
RECURSIVE CleanLoop(_, _)
CleanLoop(df, cols) ==
  IF cols = <<>> THEN df
  ELSE CleanLoop(IF Head(cols) \in df.cols THEN CleanColumn(df, Head(cols)) ELSE df,
                 Tail(cols))

\* .fillna(0) on one cell
FillNa(c) == IF IsNull(c) THEN Flt(0, 0) ELSE c

\* line 38 written as df = df.fillna(0): the nulls of every column are filled
FillNaColumns_WholeFrame(df, cols) ==
  LET names == {cols[i] : i \in 1..Len(cols)}
  IN  IF names \subseteq df.cols
      THEN [df |-> [df EXCEPT !.rows =
                      [i \in 1..Len0(df) |-> [c \in df.cols |-> FillNa(df.rows[i][c])]]],
            err |-> "none"]
      ELSE [df |-> df, err |-> "KeyError"]

\* line 38: df[cols] = df[cols].fillna(0); df[cols] raises KeyError when a
\* name of cols is not a column
FillNaColumns(df, cols) ==
  LET names == {cols[i] : i \in 1..Len(cols)}
  IN  IF names \subseteq df.cols
      THEN [df |-> [df EXCEPT !.rows =
                      [i \in 1..Len0(df) |->
                         [c \in df.cols |-> IF c \in names THEN FillNa(df.rows[i][c])
                                            ELSE df.rows[i][c]]]],
            err |-> "none"]
      ELSE [df |-> df, err |-> "KeyError"]

\* the call: the table as the call leaves it, and the exception it raised
clean_numeric(df, cols) == FillNaColumns(CleanLoop(df, cols), cols)

(* ------------------------------------------------------------------ *)
(* Sidebar selectors and filters (lines 91-107)                        *)
(* ------------------------------------------------------------------ *)
\* lines 91 and 96: the "no filter" entries of the two selectors
AllRegions == Str(<<"A", "l", "l", " ", "R", "e", "g", "i", "o", "n", "s">>)
AllCategories ==
  Str(<<"A", "l", "l", " ", "C", "a", "t", "e", "g", "o", "r", "i", "e", "s">>)

\* df[col].dropna().unique()
UniqueNonNull(df, col) == {df.rows[i][col] : i \in {j \in 1..Len0(df) : ~IsNull(df.rows[j][col])}}

\* sorted(values) of text cells: ascending in Python's str order
RECURSIVE Sorted(_)
Sorted(S) ==
  IF S = {} THEN <<>>
  ELSE LET least == CHOOSE x \in S : \A y \in S \ {x} : TextLess(x.s, y.s)
       IN  <<least>> \o Sorted(S \ {least})

\* lines 91-93 and 96-98: the options of a selector
Options(df, col, sentinel) ==
  <<sentinel>> \o (IF col \in df.cols THEN Sorted(UniqueNonNull(df, col)) ELSE <<>>)

\* lines 103 and 106 without the test against the "no filter" entry
FilterBy_IgnoresSentinel(df, col, selected, sentinel) ==
  IF col \in df.cols
  THEN [df EXCEPT !.rows = SelectSeq(df.rows, LAMBDA r : ~IsNull(r[col]) /\ r[col] = selected)]
  ELSE df

\* lines 103-104 and 106-107: one filter; == is false on a null cell
FilterBy(df, col, selected, sentinel) ==
  IF selected # sentinel /\ col \in df.cols
  THEN [df EXCEPT !.rows = SelectSeq(df.rows, LAMBDA r : ~IsNull(r[col]) /\ r[col] = selected)]
  ELSE df

(* ------------------------------------------------------------------ *)
(* Category pricing table (lines 182-186)                              *)
(* ------------------------------------------------------------------ *)
RECURSIVE GCD(_, _)
GCD(a, b) == IF b = 0 THEN a ELSE GCD(b, a % b)

Min(S) == CHOOSE x \in S : \A y \in S : x <= y

\* the number (n / d) * 10^e in lowest terms, d free of factors 2 and 5
RECURSIVE Quot(_, _, _)
Quot(n, d, e) ==
  IF n = 0 THEN [k |-> "float", n |-> 0, d |-> 1, e |-> 0]
  ELSE IF d % 2 = 0 THEN Quot(n * 5, d \div 2, e - 1)
  ELSE IF d % 5 = 0 THEN Quot(n * 2, d \div 5, e - 1)
  ELSE IF n % 10 = 0 THEN Quot(n \div 10, d, e + 1)
  ELSE LET g == GCD(Abs(n), d)
       IN  [k |-> "float", n |-> n \div g, d |-> d \div g, e |-> e]

\* the sum of finite cells, scaled: [m, e] stands for m * 10^e
RECURSIVE ScaledSum(_, _)
ScaledSum(values, e) ==
  IF values = <<>> THEN 0
  ELSE LET c == AsFloat(Head(values))
       IN  c.m * Pow10(c.e - e) + ScaledSum(Tail(values), e)

\* Series.mean(): nulls are skipped; float arithmetic on the infinities
Mean(values) ==
  LET vs == SelectSeq(values, LAMBDA c : ~IsNull(c))
      idx == 1..Len(vs)
      hasPos == \E i \in idx : vs[i].k = "inf"
      hasNeg == \E i \in idx : vs[i].k = "-inf"
      fin == SelectSeq(vs, LAMBDA c : IsFinite(c))
      emin == IF fin = <<>> THEN 0 ELSE Min({AsFloat(fin[i]).e : i \in 1..Len(fin)})
  IN  IF vs = <<>> \/ (hasPos /\ hasNeg) THEN [k |-> "nan", n |-> 0, d |-> 1, e |-> 0]
      ELSE IF hasPos THEN [k |-> "inf", n |-> 0, d |-> 1, e |-> 0]
      ELSE IF hasNeg THEN [k |-> "-inf", n |-> 0, d |-> 1, e |-> 0]
      ELSE Quot(ScaledSum(vs, emin), Len(vs), emin)

\* line 185 with groupby(..., dropna=False): the null key forms a group
GroupMean_KeepsNullKeys(df, key, col) ==
  LET keys == Sorted({df.rows[i][key] : i \in 1..Len0(df)})
  IN  [g \in 1..Len(keys) |->
         LET members == SelectSeq(df.rows, LAMBDA r : r[key] = keys[g])
         IN  [Category |-> keys[g],
              AvgPrice |-> Mean([i \in 1..Len(members) |-> members[i][col]])]]

\* line 185: df.groupby("Category")[["AvgPrice"]].mean().reset_index():
\* the groups are the non-null keys, in ascending order
GroupMean(df, key, col) ==
  LET keys == Sorted(UniqueNonNull(df, key))
  IN  [g \in 1..Len(keys) |->
         LET members == SelectSeq(df.rows, LAMBDA r : r[key] = keys[g])
         IN  [Category |-> keys[g],
              AvgPrice |-> Mean([i \in 1..Len(members) |-> members[i][col]])]]

(* ------------------------------------------------------------------ *)
(* Synthetic sample data (lines 53-70)                                 *)
(* ------------------------------------------------------------------ *)
\* line 53: np.random.seed(42) puts the global generator in the state of seed 42
Seed == 42

\* the state of the global generator k draws later (a counter-based stand-in
\* for NumPy's generator: deterministic, and each draw moves the state)
AdvanceBy(state, k) == (state + k) % 65537

\* np.random.randn() read off a generator state, in hundredths
Randn(state) == ((state * 7919) % 601) - 300

\* line 54
months ==
  << <<"J", "a", "n">>, <<"F", "e", "b">>, <<"M", "a", "r">>, <<"A", "p", "r">>,
     <<"M", "a", "y">>, <<"J", "u", "n">>, <<"J", "u", "l">>, <<"A", "u", "g">>,
     <<"S", "e", "p">>, <<"O", "c", "t">>, <<"N", "o", "v">>, <<"D", "e", "c">> >>

\* line 55
years == <<2023, 2024, 2025>>

\* line 58: base * (1 + randn * noise), base = bm * 10^be, noise in hundredths
SeriesValue(bm, be, noise, state) == Flt(bm * (10000 + Randn(state) * noise), be - 4)

\* lines 65-67: the base of a column for year y, as [m, e] for m * 10^e
Base(col, y) ==
  CASE col = "Production" ->
         (IF y = 2023 THEN <<9, 5>> ELSE IF y = 2024 THEN <<95, 4>> ELSE <<11, 5>>)
    [] col = "AvgPrice" ->
         (IF y = 2023 THEN <<65, 0>> ELSE IF y = 2024 THEN <<67, 0>> ELSE <<72, 0>>)
    [] col = "Sellout" ->
         (IF y = 2023 THEN <<1, 6>> ELSE IF y = 2024 THEN <<12, 5>> ELSE <<145, 4>>)

\* lines 57-58: the default noise is 0.15; AvgPrice is drawn with noise=0.05
Noise(col) == IF col = "AvgPrice" THEN 5 ELSE 15

SampleColumns == {"Month", "Year", "Production", "AvgPrice", "Sellout"}

DrawsPerRun == Len(years) * Len(numeric_cols) * Len(months)

\* lines 60-70: one frame per year, its three series drawn in the order
\* Production, AvgPrice, Sellout, twelve draws each; then pd.concat
SampleData(state) ==
  LET nm == Len(months)
      Cell(col, yi, ci, mi) ==
        SeriesValue(Base(col, years[yi])[1], Base(col, years[yi])[2], Noise(col),
                    AdvanceBy(state, (yi - 1) * 3 * nm + (ci - 1) * nm + mi))
  IN  [cols |-> SampleColumns,
       rows |-> [i \in 1..(Len(years) * nm) |->
                   LET yi == ((i - 1) \div nm) + 1
                       mi == ((i - 1) % nm) + 1
                   IN  [c \in SampleColumns |->
                          CASE c = "Month" -> Str(months[mi])
                            [] c = "Year" -> IntCell(years[yi])
                            [] c = "Production" -> Cell(c, yi, 1, mi)
                            [] c = "AvgPrice" -> Cell(c, yi, 2, mi)
                            [] c = "Sellout" -> Cell(c, yi, 3, mi)]]]

\* the generator after the draws of one run
AfterDraws(state) == AdvanceBy(state, DrawsPerRun)

(* ------------------------------------------------------------------ *)
(* Uploaded tables the model draws from                                *)
(* ------------------------------------------------------------------ *)
West == Str(<<"W", "e", "s", "t">>)
East == Str(<<"E", "a", "s", "t">>)
LowerWest == Str(<<"w", "e", "s", "t">>)
CatA == Str(<<"A">>)
CatB == Str(<<"B">>)

\* the rows an uploaded table is made of: formatted numbers, unparseable
\* text, nulls, infinities, a Region equal to the selector's "no filter" entry
SampleRows ==
  { [Month |-> Str(months[1]), Year |-> IntCell(2024), Region |-> West, Category |-> CatA,
     Production |-> Str(<<"1", ",", "2", "3", "4", ".", "5">>),
     AvgPrice |-> IntCell(10),
     Sellout |-> Str(<<"1", " ", "0", "0", "0">>)],
    [Month |-> Str(months[2]), Year |-> IntCell(2024), Region |-> East, Category |-> CatA,
     Production |-> Str(<<"a", "b", "c">>),
     AvgPrice |-> IntCell(20),
     Sellout |-> NaN],
    [Month |-> Str(months[1]), Year |-> IntCell(2025), Region |-> LowerWest, Category |-> CatB,
     Production |-> NaN,
     AvgPrice |-> Str(<<"5">>),
     Sellout |-> Str(<<"n", "a", "n">>)],
    [Month |-> Str(months[2]), Year |-> IntCell(2025), Region |-> AllRegions, Category |-> NaN,
     Production |-> Str(<<"i", "n", "f">>),
     AvgPrice |-> Flt(25, -1),
     Sellout |-> Str(<<>>)],
    [Month |-> Str(months[3]), Year |-> IntCell(2025), Region |-> NaN, Category |-> CatB,
     Production |-> Flt(2, 16),
     AvgPrice |-> Str(<<"-", "i", "n", "f">>),
     Sellout |-> Str(<<"1", "e", "-", "0", "5">>)] }

\* Month and Year are always there; any of the other columns may be absent
ColumnSets ==
  {{"Month", "Year"} \cup opt :
     opt \in SUBSET {"Region", "Category", "Production", "AvgPrice", "Sellout"}}

RowSeqs == UNION {[1..n -> SampleRows] : n \in 0..MaxRows}

Project(rows, cols) == [cols |-> cols, rows |-> [i \in 1..Len(rows) |-> [c \in cols |-> rows[i][c]]]]

Tables == {Project(rows, cols) : rows \in RowSeqs, cols \in ColumnSets}

(* ------------------------------------------------------------------ *)
(* State                                                               *)
(* ------------------------------------------------------------------ *)
VARIABLES
  uploaded_file,  \* line 19: [state: "none" | "csv" | "bad", table]
  use_sample,     \* line 21: the checkbox
  rng,            \* the state of NumPy's global generator
  pc,             \* where the run of the script is
  error,          \* the exception that ended the run, "none" when none did
  loaded,         \* the table as lines 46 / 70 bound it to df
  df,             \* df
  regions,        \* line 91-93
  region,         \* line 94
  categories,     \* line 96-98
  category,       \* line 99
  table_shown,    \* whether lines 183-186 ran
  df_table        \* line 185

vars == <<uploaded_file, use_sample, rng, pc, error, loaded, df, regions, region,
          categories, category, table_shown, df_table>>

NoTable == [cols |-> {}, rows |-> <<>>]
NoFile == [state |-> "none", table |-> NoTable]
BadFile == [state |-> "bad", table |-> NoTable]
Unset == [k |-> "unset", s |-> <<>>, m |-> 0, e |-> 0]

\* the unseeded generator states a process may start in
StartStates == {0, 1}

\* the names a run of the script binds, before the run binds them
Fresh ==
  /\ pc' = "load"
  /\ error' = "none"
  /\ loaded' = NoTable
  /\ df' = NoTable
  /\ regions' = <<>>
  /\ region' = Unset
  /\ categories' = <<>>
  /\ category' = Unset
  /\ table_shown' = FALSE
  /\ df_table' = <<>>

Init ==
  /\ uploaded_file = NoFile
  /\ use_sample = FALSE
  /\ rng \in StartStates
  /\ pc = "load"
  /\ error = "none"
  /\ loaded = NoTable
  /\ df = NoTable
  /\ regions = <<>>
  /\ region = Unset
  /\ categories = <<>>
  /\ category = Unset
  /\ table_shown = FALSE
  /\ df_table = <<>>

Finished == pc \in {"done", "aborted"}

(* ------------------------------------------------------------------ *)
(* One run of the script                                               *)
(* ------------------------------------------------------------------ *)
\* line 45
UseUpload == uploaded_file.state # "none" /\ ~use_sample

\* lines 45-47: the uploaded CSV parses
LoadCsv ==
  /\ pc = "load"
  /\ UseUpload
  /\ uploaded_file.state = "csv"
  /\ df' = uploaded_file.table
  /\ loaded' = uploaded_file.table
  /\ pc' = "clean"
  /\ UNCHANGED <<uploaded_file, use_sample, rng, error, regions, region, categories,
                 category, table_shown, df_table>>

\* line 46: pd.read_csv raises on input that is not a delimited table
LoadMalformed ==
  /\ pc = "load"
  /\ UseUpload
  /\ uploaded_file.state = "bad"
  /\ error' = "ParserError"
  /\ pc' = "aborted"
  /\ UNCHANGED <<uploaded_file, use_sample, rng, loaded, df, regions, region, categories,
                 category, table_shown, df_table>>

\* lines 53-58 without the call of np.random.seed: the draws go on from
\* wherever the generator is
SeededState_Unseeded(state) == state

\* line 53: the generator state the draws start from
SeededState(state) == Seed

\* lines 49-70
LoadSample ==
  /\ pc = "load"
  /\ ~UseUpload
  /\ \E t \in {SampleData(SeededState(rng))} : df' = t /\ loaded' = t
  /\ rng' = AfterDraws(SeededState(rng))
  /\ pc' = "clean"
  /\ UNCHANGED <<uploaded_file, use_sample, error, regions, region, categories,
                 category, table_shown, df_table>>

\* lines 76-78
CleanNumeric ==
  /\ pc = "clean"
  /\ \E r \in {clean_numeric(df, numeric_cols)} :
       /\ df' = r.df
       /\ error' = r.err
       /\ pc' = IF r.err = "none" THEN "sidebar" ELSE "aborted"
  /\ UNCHANGED <<uploaded_file, use_sample, rng, loaded, regions, region, categories,
                 category, table_shown, df_table>>

\* lines 87-99: the selectors; a selectbox returns one of its options
Sidebar ==
  /\ pc = "sidebar"
  /\ regions' = Options(df, "Region", AllRegions)
  /\ \E v \in {regions'[i] : i \in 1..Len(regions')} : region' = v
  /\ categories' = Options(df, "Category", AllCategories)
  /\ \E v \in {categories'[i] : i \in 1..Len(categories')} : category' = v
  /\ pc' = "filter"
  /\ UNCHANGED <<uploaded_file, use_sample, rng, error, loaded, df, table_shown, df_table>>

\* lines 102-107
ApplyFilters ==
  /\ pc = "filter"
  /\ df' = FilterBy(FilterBy(df, "Region", region, AllRegions),
                    "Category", category, AllCategories)
  /\ pc' = "table"
  /\ UNCHANGED <<uploaded_file, use_sample, rng, error, loaded, regions, region,
                 categories, category, table_shown, df_table>>

\* line 182
HasPricing(t) == "Category" \in t.cols /\ "AvgPrice" \in t.cols

\* lines 182-186 (the KPI and chart calls of lines 113-176 bind nothing)
CategoryTable ==
  /\ pc = "table"
  /\ table_shown' = HasPricing(df)
  /\ df_table' = IF HasPricing(df) THEN GroupMean(df, "Category", "AvgPrice") ELSE <<>>
  /\ pc' = "done"
  /\ UNCHANGED <<uploaded_file, use_sample, rng, error, loaded, df, regions, region,
                 categories, category>>

(* ------------------------------------------------------------------ *)
(* User interactions: each one starts a new run of the whole script    *)
(* ------------------------------------------------------------------ *)
\* line 19: a CSV is put in the uploader
Upload ==
  /\ Finished
  /\ uploaded_file.state = "none"
  /\ \E t \in Tables : uploaded_file' = [state |-> "csv", table |-> t]
  /\ Fresh
  /\ UNCHANGED <<use_sample, rng>>

\* line 19: a file that is not a valid delimited table is put in the uploader
UploadMalformed ==
  /\ Finished
  /\ uploaded_file.state = "none"
  /\ uploaded_file' = BadFile
  /\ Fresh
  /\ UNCHANGED <<use_sample, rng>>

\* line 19: the file is removed from the uploader
RemoveFile ==
  /\ Finished
  /\ uploaded_file.state # "none"
  /\ uploaded_file' = NoFile
  /\ Fresh
  /\ UNCHANGED <<use_sample, rng>>

\* line 21: the checkbox is toggled
ToggleSample ==
  /\ Finished
  /\ use_sample' = ~use_sample
  /\ Fresh
  /\ UNCHANGED <<uploaded_file, rng>>

\* lines 89, 94, 99: a radio or selector is changed
Rerun ==
  /\ Finished
  /\ Fresh
  /\ UNCHANGED <<uploaded_file, use_sample, rng>>

Next ==
  \/ LoadCsv
  \/ LoadMalformed
  \/ LoadSample
  \/ CleanNumeric
  \/ Sidebar
  \/ ApplyFilters
  \/ CategoryTable
  \/ Upload
  \/ UploadMalformed
  \/ RemoveFile
  \/ ToggleSample
  \/ Rerun

Spec == Init /\ [][Next]_vars

(* ------------------------------------------------------------------ *)
(* Properties                                                          *)
(* ------------------------------------------------------------------ *)
NumericNames == {numeric_cols[i] : i \in 1..Len(numeric_cols)}

\* the run is past a call of clean_numeric that returned
Cleaned == pc = "sidebar"

\* the call of clean_numeric raised
CleanRaised == pc = "aborted" /\ error = "KeyError"

\* the cleaned table of this run, recomputed from the table as loaded
CleanedTable == clean_numeric(loaded, numeric_cols).df

\* equal as numbers, whatever the dtype (10 and 10.0)
SameNumber(a, b) == AsFloat(a) = AsFloat(b)

Zero == Flt(0, 0)

\* C1: clean_numeric never fails on a missing column: whatever columns the
\* table lacks, the call completes without raising.
C1_CleanNumericNeverRaises == error # "KeyError"

\* C2: after clean_numeric every cell of every requested column that is present
\* is a finite number: never null, never text, never infinite.
C2_CleanedCellsFinite ==
  Cleaned =>
    \A i \in 1..Len0(df) : \A c \in NumericNames \cap df.cols : IsFinite(df.rows[i][c])

\* the text of a cell with every comma and every space deleted
Stripped(c) == SelectSeq(ToStr(c), LAMBDA ch : ch \notin {",", " "})

\* what C3 requires of a cell: the number its stripped text parses to, and
\* zero for a null cell and for text that does not parse
Required(c) ==
  IF IsNull(c) \/ IsNull(ToNumeric(Stripped(c))) THEN Zero ELSE ToNumeric(Stripped(c))

\* C3: every cell of a requested column that is present becomes the number
\* its comma- and space-free text parses to ("1,234.5" becomes 1234.5), and
\* exactly 0 when the text does not parse or the cell was null.
C3_CellsParsedOrZero ==
  Cleaned =>
    \A i \in 1..Len0(df) : \A c \in NumericNames \cap df.cols :
      /\ SameNumber(df.rows[i][c], Required(loaded.rows[i][c]))
      /\ loaded.rows[i][c] = Str(<<"1", ",", "2", "3", "4", ".", "5">>)
           => df.rows[i][c] = Flt(12345, -1)
      /\ loaded.rows[i][c] \in {NaN, Str(<<"a", "b", "c">>), Str(<<>>)}
           => SameNumber(df.rows[i][c], Zero)

C3_Witness ==
  /\ Cleaned
  /\ \E i \in 1..Len0(df) :
       /\ loaded.rows[i]["Production"] = Str(<<"1", ",", "2", "3", "4", ".", "5">>)
       /\ df.rows[i]["Production"] = Flt(12345, -1)
       /\ loaded.rows[i]["Sellout"] = Str(<<"1", " ", "0", "0", "0">>)
       /\ SameNumber(df.rows[i]["Sellout"], IntCell(1000))
  /\ \E i \in 1..Len0(df) :
       /\ loaded.rows[i]["Production"] = Str(<<"a", "b", "c">>)
       /\ df.rows[i]["Production"] = Zero
       /\ IsNull(loaded.rows[i]["Sellout"])
       /\ df.rows[i]["Sellout"] = Zero

\* the rows the selections ask for
Selected(r) ==
  /\ (region # AllRegions /\ "Region" \in loaded.cols) => r["Region"] = region
  /\ (category # AllCategories /\ "Category" \in loaded.cols) => r["Category"] = category

\* C4: the filter step returns exactly the rows of the cleaned table whose
\* Region and Category equal the selections (a condition applies only when its
\* selection is not the "no filter" entry and its column exists), in their
\* original order; with no filter applied the table is unchanged.
C4_FilterIsSubsequence ==
  pc = "table" =>
    LET cleaned == CleanedTable
    IN  /\ df.cols = loaded.cols
        /\ df.rows = SelectSeq(cleaned.rows, Selected)
        /\ (region = AllRegions /\ category = AllCategories) => df = cleaned

C4_Witness ==
  /\ pc = "table"
  /\ region = West
  /\ category = CatA
  /\ Len0(df) = 1
  /\ Len0(loaded) = 2
  /\ loaded.rows[1]["Region"] = East
  /\ df.rows[1]["Region"] = West

\* the non-null Category values of the filtered rows
FilteredCategories == {df.rows[i]["Category"] : i \in {j \in 1..Len0(df) : ~IsNull(df.rows[j]["Category"])}}

\* q is the arithmetic mean of the cells vs (float arithmetic on infinities)
IsMeanOf(q, vs) ==
  LET idx == 1..Len(vs)
      hasPos == \E i \in idx : vs[i].k = "inf"
      hasNeg == \E i \in idx : vs[i].k = "-inf"
      low == Min({q.e} \cup {AsFloat(vs[i]).e : i \in {j \in idx : IsFinite(vs[j])}})
  IN  /\ Len(vs) > 0
      /\ \A i \in idx : ~IsNull(vs[i])
      /\ IF hasPos /\ hasNeg THEN q.k = "nan"
         ELSE IF hasPos THEN q.k = "inf"
         ELSE IF hasNeg THEN q.k = "-inf"
         ELSE /\ q.k = "float"
              /\ q.n * Pow10(q.e - low) * Len(vs) = q.d * ScaledSum(vs, low)

\* C5: the aggregate table is computed over the filtered table: one row per
\* distinct non-null Category of the filtered rows, in ascending Category
\* order, holding the mean AvgPrice of the filtered rows of that Category;
\* null Categories form no group and no group is empty.
C5_GroupMeanOverFiltered ==
  (pc = "done" /\ table_shown) =>
    /\ {df_table[g].Category : g \in 1..Len(df_table)} = FilteredCategories
    /\ Len(df_table) = Cardinality(FilteredCategories)
    /\ \A g \in 1..Len(df_table) : \A h \in 1..Len(df_table) :
         g < h => TextLess(df_table[g].Category.s, df_table[h].Category.s)
    /\ \A g \in 1..Len(df_table) :
         LET members == SelectSeq(df.rows, LAMBDA r : r["Category"] = df_table[g].Category)
         IN  /\ ~IsNull(df_table[g].Category)
             /\ Len(members) > 0
             /\ IsMeanOf(df_table[g].AvgPrice,
                         [i \in 1..Len(members) |-> members[i]["AvgPrice"]])

\* the region filter has dropped a row, and the table is over what is left
C5_Witness ==
  /\ pc = "done"
  /\ table_shown
  /\ region = West
  /\ Len0(loaded) = 2
  /\ Len0(df) = 1
  /\ df_table = <<[Category |-> CatA, AvgPrice |-> [k |-> "float", n |-> 1, d |-> 1, e |-> 1]]>>

\* the mean of two rows of one Category (10 and 20)
C5_WitnessMean ==
  /\ pc = "done"
  /\ table_shown
  /\ Len(df_table) = 1
  /\ df_table[1] = [Category |-> CatA, AvgPrice |-> [k |-> "float", n |-> 15, d |-> 1, e |-> 0]]

\* C6: whichever of Region, Category, Production, AvgPrice and Sellout are
\* absent, the run completes; unparseable uploaded input is the only thing
\* that aborts it.
C6_OnlyMalformedInputAborts ==
  pc = "aborted" => (error = "ParserError" /\ uploaded_file.state = "bad")

C8_OnlyNumericColumnsChange ==
  (Cleaned \/ CleanRaised) =>
    /\ df.cols = loaded.cols
    /\ Len0(df) = Len0(loaded)
    /\ \A i \in 1..Len0(df) : \A c \in df.cols \ NumericNames :
         df.rows[i][c] = loaded.rows[i][c]

C8_Witness ==
  /\ Cleaned
  /\ df # loaded
  /\ {"Region", "Category"} \subseteq df.cols
  /\ \E i \in 1..Len0(df) : IsNull(df.rows[i]["Region"])
  /\ \E i \in 1..Len0(df) : IsNull(df.rows[i]["Category"])

\* a run that took the synthetic branch has just bound its table
SampleLoaded == pc = "clean" /\ ~UseUpload

\* C9: every run that uses the synthetic dataset loads the identical table:
\* 36 rows, the 12 months for each of 2023, 2024, 2025, columns Month, Year,
\* Production, AvgPrice, Sellout, the same drawn values each time, whatever
\* earlier runs loaded or drew; a run starts with nothing bound by the last.
C9_SampleReproducible ==
  /\ SampleLoaded =>
       /\ loaded = SampleData(Seed)
       /\ loaded.cols = {"Month", "Year", "Production", "AvgPrice", "Sellout"}
       /\ Len0(loaded) = 36
       /\ \A y \in {2023, 2024, 2025} : \A mi \in 1..12 :
            Cardinality({i \in 1..Len0(loaded) :
                           /\ loaded.rows[i]["Year"] = IntCell(y)
                           /\ loaded.rows[i]["Month"] = Str(months[mi])}) = 1
  /\ pc = "load" =>
       /\ df = NoTable
       /\ loaded = NoTable
       /\ regions = <<>>
       /\ categories = <<>>
       /\ region = Unset
       /\ category = Unset
       /\ df_table = <<>>
       /\ ~table_shown

\* a synthetic run after a run that loaded an upload and after earlier draws
C9_Witness ==
  /\ SampleLoaded
  /\ uploaded_file.state = "csv"
  /\ use_sample
  /\ rng = AdvanceBy(Seed, DrawsPerRun)
  /\ Len0(loaded) = 36

\* C10: every non-null value v of the Region column is offered by the region
\* selector, and selecting it yields exactly the rows whose Region equals v
\* (likewise Category), for every text v.
C10_EveryValueFilters ==
  /\ (pc = "table" /\ "Region" \in loaded.cols /\ category = AllCategories) =>
       /\ UniqueNonNull(CleanedTable, "Region") \subseteq {regions[i] : i \in 1..Len(regions)}
       /\ region \in UniqueNonNull(CleanedTable, "Region")
            => df.rows = SelectSeq(CleanedTable.rows, LAMBDA r : r["Region"] = region)
  /\ (pc = "table" /\ "Category" \in loaded.cols /\ region = AllRegions) =>
       /\ UniqueNonNull(CleanedTable, "Category")
            \subseteq {categories[i] : i \in 1..Len(categories)}
       /\ category \in UniqueNonNull(CleanedTable, "Category")
            => df.rows = SelectSeq(CleanedTable.rows, LAMBDA r : r["Category"] = category)

====
